---- MODULE Spec2Model ----
(***************************************************************************)
(* Model of the backup-otomatis restore pipeline (src/unnamed/part_004):   *)
(* main's batch loop, processFile, deleteFileAndUpdateSpreadsheet,         *)
(* getParentFolderName and upsertSpreadsheetRow.                           *)
(*                                                                         *)
(* External collaborators (Drive, Sheets, 7z, sqlcmd, icacls, the local    *)
(* file system) are modelled by their effect on the remote store, the      *)
(* ledger and the scratch directory; whether a call succeeds is chosen     *)
(* nondeterministically where the code checks the call's error.            *)
(*                                                                         *)
(* Text is modelled as sequences of one-character strings, so that         *)
(* strings.TrimSpace is computed and not assumed.  Column-B texts          *)
(* (timestamps) are never inspected by the code and are plain strings.     *)
(***************************************************************************)
EXTENDS Naturals, Integers, Sequences, FiniteSets, TLC

\* ------------------------------------------------------------------ bounds
MaxFiles == 2          \* number of candidate files the remote store may hold
MaxNow == 10           \* the clock (minutes) stops advancing here
MaxRows == 2           \* rows of an initial ledger in the upsert specification

\* ------------------------------------------------------- program constants
minFileSize == 10240
maxAgeForDeletion == 10

\* ------------------------------------------------------------ input sets
FileIds == 1..MaxFiles
Sizes == {2048, 10239, 10240}
CreatedTimes == {"2025-01-01T00:00:00Z", "not-a-time"}
ParentIds == {"p1"}
StartNow == maxAgeForDeletion - 1   \* the first clock reading, in minutes

\* ------------------------------------------------------------------ text
Sp == " "
EmptyStr == << >>
NonString == <<"#nonstring">>      \* a cell whose value is not a Go string

IsString(c) == c # NonString

NL == "\n"

\* White space as strings.TrimSpace sees it (the ASCII part).
IsSpace(c) == c \in {Sp, NL, "\t", "\r"}

RECURSIVE TrimLeft(_)
TrimLeft(s) ==
    IF s = << >> THEN s
    ELSE IF IsSpace(Head(s)) THEN TrimLeft(Tail(s)) ELSE s

RECURSIVE TrimRight(_)
TrimRight(s) ==
    IF s = << >> THEN s
    ELSE IF IsSpace(s[Len(s)]) THEN TrimRight(SubSeq(s, 1, Len(s) - 1)) ELSE s

TrimSpace(s) == TrimRight(TrimLeft(s))

\* strings.Split(s, sep) for a one-character separator.
RECURSIVE Split(_, _)
Split(s, sep) ==
    IF \A k \in 1..Len(s) : s[k] # sep THEN <<s>>
    ELSE LET k == CHOOSE i \in 1..Len(s) :
                      s[i] = sep /\ \A j \in 1..(i - 1) : s[j] # sep
         IN  <<SubSeq(s, 1, k - 1)>> \o Split(SubSeq(s, k + 1, Len(s)), sep)

LowerLetters == <<"a", "b", "c", "d", "e", "f", "g", "h", "i", "j", "k", "l", "m",
                  "n", "o", "p", "q", "r", "s", "t", "u", "v", "w", "x", "y", "z">>

UpperLetters == <<"A", "B", "C", "D", "E", "F", "G", "H", "I", "J", "K", "L", "M",
                  "N", "O", "P", "Q", "R", "S", "T", "U", "V", "W", "X", "Y", "Z">>

UpperChar(c) ==
    IF \E k \in 1..Len(LowerLetters) : LowerLetters[k] = c
    THEN UpperLetters[CHOOSE k \in 1..Len(LowerLetters) : LowerLetters[k] = c]
    ELSE c

\* strings.ToUpper
ToUpper(s) == [k \in 1..Len(s) |-> UpperChar(s[k])]

\* strings.EqualFold (ASCII letters)
EqualFold(s, t) == ToUpper(s) = ToUpper(t)

HasPrefix(s, prefix) ==
    Len(s) >= Len(prefix) /\ SubSeq(s, 1, Len(prefix)) = prefix

HasSuffix(s, suffix) ==
    Len(s) >= Len(suffix) /\ SubSeq(s, Len(s) - Len(suffix) + 1, Len(s)) = suffix

\* ----------------------------------------------------------------- paths
PathSep == "\\"

\* Position of the last separator of a path (0: none).
LastSep(path) ==
    IF \A k \in 1..Len(path) : path[k] # PathSep THEN 0
    ELSE CHOOSE k \in 1..Len(path) :
             path[k] = PathSep /\ \A j \in (k + 1)..Len(path) : path[j] # PathSep

\* filepath.Base of a clean path
Base(path) == SubSeq(path, LastSep(path) + 1, Len(path))

\* filepath.Dir of a clean path
Dir(path) ==
    IF LastSep(path) = 0 THEN <<".">>
    ELSE IF LastSep(path) = 1 THEN <<PathSep>>
    ELSE SubSeq(path, 1, LastSep(path) - 1)

\* filepath.Join(dir, name) for a one-element name: an empty dir is left
\* out and a separator that ends dir is not doubled.
Join(dir, name) ==
    IF dir = EmptyStr THEN name
    ELSE IF dir[Len(dir)] = PathSep THEN dir \o name
    ELSE dir \o <<PathSep>> \o name

\* Name of the Drive folder with the given id (Files.Get(parentID).Name).
FolderName(p) == <<"a", Sp>>

\* ------------------------------------------------------------------ time
\* time.Parse(time.RFC3339, s): the instant in minutes, or -1 on a parse error.
ParseRFC3339(s) ==
    IF s = "2025-01-01T00:00:00Z" THEN 0
    ELSE IF s = "2025-01-01T00:05:00Z" THEN 5
    ELSE -1

\* t.In(loc).Format("1/2/2006 15:04:05")
FormatInstant(t) == IF t = 0 THEN "1/1/2025 00:00:00" ELSE "1/1/2025 00:05:00"

formatCreatedTime(createdTimeStr) ==
    IF ParseRFC3339(createdTimeStr) < 0 THEN createdTimeStr
    ELSE FormatInstant(ParseRFC3339(createdTimeStr))

shouldDeleteMutGT(createdTimeStr, clock) ==
    /\ ParseRFC3339(createdTimeStr) >= 0
    /\ clock - ParseRFC3339(createdTimeStr) > maxAgeForDeletion

shouldDeleteMutAlways(createdTimeStr, clock) == TRUE

shouldDeleteMutNever(createdTimeStr, clock) == FALSE

\* shouldDelete: a parse error means FALSE, else time.Since(created) >= 10 min.
shouldDelete(createdTimeStr, clock) ==
    /\ ParseRFC3339(createdTimeStr) >= 0
    /\ clock - ParseRFC3339(createdTimeStr) >= maxAgeForDeletion

TooSmallMutNever(size) == FALSE

TooSmallMutLE(size) == size <= minFileSize

\* processFile's size gate.
TooSmall(size) == size < minFileSize

\* ---------------------------------------------------------------- ledger
\* A ledger is the grid Values.Get("A:B") returns: a sequence of rows, a row
\* a sequence of 0..2 cells.  Column A holds text (or NonString), column B a
\* timestamp text.

RECURSIVE FindFrom(_, _, _)
FindFrom(values, kab, i) ==
    IF i > Len(values) THEN -1
    ELSE IF /\ Len(values[i]) > 0
            /\ IsString(values[i][1])
            /\ TrimSpace(values[i][1]) = TrimSpace(kab)
         THEN i - 1
         ELSE FindFrom(values, kab, i + 1)

FindRowMutNoTrim(values, kab) ==
    IF \E i \in 1..Len(values) : Len(values[i]) > 0 /\ values[i][1] = kab
    THEN (CHOOSE i \in 1..Len(values) :
              /\ Len(values[i]) > 0 /\ values[i][1] = kab
              /\ \A j \in 1..(i - 1) : ~(Len(values[j]) > 0 /\ values[j][1] = kab)) - 1
    ELSE -1

\* The scan of upsertSpreadsheetRow: 0-based index of the first row whose
\* trimmed column-A text equals the trimmed key, or -1.
FindRow(values, kab) == FindFrom(values, kab, 1)

UpdateCellMutZeroBased(l, rowNum, v) ==
    [k \in 1..Len(l) |->
        IF k = rowNum - 1
        THEN <<(IF Len(l[k]) > 0 THEN l[k][1] ELSE EmptyStr), v>>
        ELSE l[k]]

\* Values.Update at "B<rowNum>" (1-based row number).
UpdateCell(l, rowNum, v) ==
    [k \in 1..(IF rowNum > Len(l) THEN rowNum ELSE Len(l)) |->
        IF k = rowNum
        THEN <<(IF k <= Len(l) /\ Len(l[k]) > 0 THEN l[k][1] ELSE EmptyStr), v>>
        ELSE IF k <= Len(l) THEN l[k] ELSE << >>]

AppendRowMutTrimmed(l, kab, v) == Append(l, <<TrimSpace(kab), v>>)

\* Values.Append of the row [kab, createdTime] with INSERT_ROWS.
AppendRow(l, kab, v) == Append(l, <<kab, v>>)

\* Rows the scan would match for a key, and the text in column B of a row.
Matches(row, kab) ==
    Len(row) > 0 /\ IsString(row[1]) /\ TrimSpace(row[1]) = TrimSpace(kab)

RowsFor(l, kab) == {k \in 1..Len(l) : Matches(l[k], kab)}

ColB(row) == IF Len(row) >= 2 THEN row[2] ELSE ""


\* ----------------------------------------------------------------- state
VARIABLES
    pc,          \* position of the process (main, processFile and callees)
    drive,       \* ids of the files present in the remote store
    ledger,      \* the tracking sheet, columns A:B
    ledger0,     \* the ledger at start (history)
    now,         \* the clock (minutes) as of its latest reading
    files,       \* main: the slice returned by getFilesFromFolder
    idx,         \* main: 1-based position of the file being processed (0: none)
    handed,      \* history: file ids passed to processFile, in order
    results,     \* history: what main logged for each file, "ok" or "err"
    completed,   \* main logged "Backup-otomatis application completed"
    file,        \* processFile: the record [Size, CreatedTime, Parents] of the
                 \* current file, as Drive listed it
    calls,       \* history: external calls issued for the current file
    scratch,     \* the scratch directory of processFile exists on disk
    deferred,    \* processFile registered defer os.RemoveAll(tempDir)
    err,         \* processFile: the error it is about to return ("nil": none)
    from,        \* which call site of deleteFileAndUpdateSpreadsheet is active
    dErr,        \* return value of deleteFileAndUpdateSpreadsheet
    failed,      \* history: the calls for the current file that returned an error
    since,       \* history: time.Since(createdTime) read by shouldDelete, or -1
    kab,         \* upsertSpreadsheetRow: the key
    createdTime, \* upsertSpreadsheetRow: the timestamp text
    rowIndex,    \* upsertSpreadsheetRow: result of the scan (-1: not found)
    ups,         \* history: finished upserts, <<key, text, error>>
    entries,     \* findBakFile: what filepath.Walk visits below dir, in order
    bakFile,     \* processFile: the path downloadAndExtract returned, which
                 \* restoreDB receives as bakPath
    out,         \* restoreDB: standard output of the latest cmd.Output()
    listOut,     \* restoreDB: the trimmed output of the manifest query
    dataLogical, \* restoreDB: logical name of the data file
    logLogical,  \* restoreDB: logical name of the log file
    dataPath,    \* restoreDB: the directory the database files are moved to
    query,       \* history: the RESTORE DATABASE command of step 4
    env,         \* main: the configuration options that have a non-empty value
    other        \* a second batch run: its position in upsertSpreadsheetRow
                 \* and its locals [pc, rowIndex, createdTime]

mainVars == <<files, idx, handed, results, completed>>
storeVars == <<drive, ledger, ledger0>>
fileVars == <<file, calls, failed, scratch, deferred, err, from, dErr, since>>
upsertVars == <<kab, createdTime, rowIndex, ups>>
walkVars == <<entries, bakFile>>
restoreVars == <<out, listOut, dataLogical, logLogical, dataPath, query>>
envVars == <<env>>
peerVars == <<other>>
vars == <<pc, now, mainVars, storeVars, fileVars, upsertVars, walkVars,
          restoreVars, envVars, peerVars>>

\* ------------------------------------------------------------ candidates
ParentLists == {<< >>} \cup {<<p>> : p \in ParentIds}

FileRecs == [Size : Sizes, CreatedTime : CreatedTimes, Parents : ParentLists]

DefaultRec == [Size |-> 2048, CreatedTime |-> "not-a-time", Parents |-> << >>]

OldText == "12/31/2024 23:00:00"

\* The ledger a batch run starts with: one row, for the key "a" (a folder
\* named "a " is updated in place, any other key is appended).  Ledgers of
\* other shapes are the subject of the upsert specification.
InitLedgers == { << <<<<"a">>, OldText>> >> }

\* The ids of a set in ascending order (Drive's answer to Files.List).
Listing(S) ==
    [k \in 1..Cardinality(S) |->
        CHOOSE x \in S : Cardinality({y \in S : y < x}) = k - 1]

cur == files[idx]

\* An external call is issued and returns; ok tells whether without error.
Call(name, ok) ==
    /\ calls' = Append(calls, name)
    /\ failed' = IF ok THEN failed ELSE failed \cup {name}

Issued(name) == \E k \in 1..Len(calls) : calls[k] = name

FirstIndex(name) == CHOOSE k \in 1..Len(calls) :
    calls[k] = name /\ \A j \in 1..(k - 1) : calls[j] # name

Count(name) == Cardinality({k \in 1..Len(calls) : calls[k] = name})

\* ------------------------------------------------------------------ Init
\* The options main reads from the environment; user and password may be
\* empty (Windows authentication).
Options == {"DB_HOST", "DB_USER", "DB_PASS", "DB_NAME", "SEVENZ_PASSWORD",
            "UPDATE_QUERY", "SERVICE_ACCOUNT_FILE", "SPREADSHEET_ID"}

NoOther == [pc |-> "idle", rowIndex |-> -1, createdTime |-> "", err |-> "nil"]

InitLocals ==
    /\ files = << >>
    /\ idx = 0
    /\ handed = << >>
    /\ results = << >>
    /\ completed = FALSE
    /\ file = DefaultRec
    /\ calls = << >>
    /\ failed = {}
    /\ scratch = FALSE
    /\ deferred = FALSE
    /\ err = "nil"
    /\ from = "none"
    /\ dErr = "nil"
    /\ since = -1
    /\ createdTime = ""
    /\ rowIndex = -1
    /\ ups = << >>

\* Locals of restoreDB before its first statement; no second batch run.
InitRestoreLocals ==
    /\ out = EmptyStr
    /\ listOut = EmptyStr
    /\ dataLogical = EmptyStr
    /\ logLogical = EmptyStr
    /\ dataPath = EmptyStr
    /\ query = << >>
    /\ other = NoOther

Init ==
    /\ pc = "list"
    /\ now = StartNow
    /\ drive \in {1..k : k \in 0..MaxFiles}
    /\ ledger \in InitLedgers
    /\ ledger0 = ledger
    /\ kab = EmptyStr
    /\ InitLocals
    /\ entries = << >>
    /\ bakFile = EmptyStr
    /\ InitRestoreLocals
    /\ env = Options

\* ------------------------------------------------------------------ main
\* getFilesFromFolder: a Drive API error is fatal (log.Fatalf).
GetFilesFromFolder ==
    /\ pc = "list"
    /\ \E ok \in BOOLEAN :
        IF ok
        THEN /\ files' = Listing(drive)
             /\ pc' = "loop"
        ELSE /\ files' = files
             /\ pc' = "fatal"
    /\ UNCHANGED <<now, idx, handed, results, completed, storeVars, fileVars, upsertVars,
                   walkVars, restoreVars, envVars, peerVars>>

\* for i, file := range files: the next file is passed to processFile.  The
\* record of a listed file is drawn when the loop reaches it: nothing reads
\* it earlier and nothing changes it.
LoopNext ==
    /\ pc = "loop"
    /\ idx < Len(files)
    /\ idx' = idx + 1
    /\ file' \in FileRecs
    /\ handed' = Append(handed, files[idx + 1])
    /\ pc' = "pf_start"
    /\ calls' = << >>
    /\ failed' = {}
    /\ deferred' = FALSE
    /\ err' = "nil"
    /\ from' = "none"
    /\ dErr' = "nil"
    /\ since' = -1
    /\ kab' = EmptyStr
    /\ createdTime' = ""
    /\ rowIndex' = -1
    /\ ups' = << >>
    /\ UNCHANGED <<now, files, results, completed, storeVars, scratch,
                   walkVars, restoreVars, envVars, peerVars>>

\* The range is exhausted: the completion message is logged.
LoopEnd ==
    /\ pc = "loop"
    /\ idx >= Len(files)
    /\ completed' = TRUE
    /\ pc' = "done"
    /\ UNCHANGED <<now, files, idx, handed, results, storeVars, fileVars, upsertVars,
                   walkVars, restoreVars, envVars, peerVars>>

MainAfterProcessMutFatal(e) == IF e = "nil" THEN "loop" ELSE "fatal"

MainAfterProcessMutRetry(e) == IF e = "nil" THEN "loop" ELSE "pf_start"

\* main after processFile returned: an error is logged and the loop continues.
MainAfterProcess(e) == "loop"

RemoveAllMutRemove(exists) == exists

\* os.RemoveAll(tempDir): whether the directory exists afterwards.
RemoveAll(exists) == FALSE

\* processFile returns: the deferred os.RemoveAll runs, main logs the outcome.
ProcessFileReturn ==
    /\ pc = "pf_ret"
    /\ IF deferred
       THEN /\ scratch' = RemoveAll(scratch)
            /\ Call("RemoveAll", TRUE)
       ELSE UNCHANGED <<scratch, calls, failed>>
    /\ results' = Append(results, IF err = "nil" THEN "ok" ELSE "err")
    /\ pc' = MainAfterProcess(err)
    /\ UNCHANGED <<now, files, idx, handed, completed, storeVars, file, deferred,
                   err, from, dErr, since, upsertVars,
                   walkVars, restoreVars, envVars, peerVars>>

\* ----------------------------------------------------------- processFile
\* if file.Size < minFileSize { return deleteSmallFile(srv, file) }
DeleteSmallFile ==
    /\ pc = "pf_start"
    /\ TooSmall(file.Size)
    /\ \E ok \in BOOLEAN :
        /\ Call("Drive.Delete", ok)
        /\ drive' = IF ok THEN drive \ {cur} ELSE drive
        /\ err' = IF ok THEN "nil" ELSE "delete small"
    /\ pc' = "pf_ret"
    /\ UNCHANGED <<now, mainVars, ledger, ledger0, file, scratch, deferred,
                   from, dErr, since, upsertVars,
                   walkVars, restoreVars, envVars, peerVars>>

\* tempDir, err := createTempDir(); defer os.RemoveAll(tempDir)
CreateTempDir ==
    /\ pc = "pf_start"
    /\ ~TooSmall(file.Size)
    /\ \E ok \in BOOLEAN :
        /\ Call("MkdirTemp", ok)
        /\ scratch' = IF ok THEN TRUE ELSE scratch
        /\ deferred' = ok
        /\ err' = IF ok THEN err ELSE "mktemp"
        /\ pc' = IF ok THEN "download" ELSE "pf_ret"
    /\ UNCHANGED <<now, mainVars, storeVars, file, from, dErr, since, upsertVars,
                   walkVars, restoreVars, envVars, peerVars>>

\* One step of downloadAndExtract: on failure the error comes back to
\* processFile's "if err != nil" (pc "dx_failed").
ExtractStep(at, name, next) ==
    /\ pc = at
    /\ \E ok \in BOOLEAN :
        /\ Call(name, ok)
        /\ pc' = IF ok THEN next ELSE "dx_failed"
        /\ err' = IF ok THEN err ELSE name
    /\ UNCHANGED <<now, mainVars, storeVars, file, scratch, deferred, from, dErr,
                   since, upsertVars,
                   walkVars, restoreVars, envVars, peerVars>>

DownloadFile == ExtractStep("download", "Drive.Download", "extract")

Extract7z == ExtractStep("extract", "7z", "find")

FindBakFile == ExtractStep("find", "Walk", "grant")

\* downloadAndExtract failed: the age gate decides on the cleanup.  The clock
\* is read here (time.Since); it may have advanced since its last reading.
ExtractionFailed ==
    /\ pc = "dx_failed"
    /\ now' \in now..MaxNow
    /\ since' = IF ParseRFC3339(file.CreatedTime) < 0 THEN -1
                ELSE now' - ParseRFC3339(file.CreatedTime)
    /\ IF shouldDelete(file.CreatedTime, now')
       THEN /\ from' = "cleanup"
            /\ pc' = "dfus_delete"
       ELSE /\ from' = from
            /\ pc' = "pf_ret"
    /\ UNCHANGED <<mainVars, storeVars, file, calls, failed, scratch, deferred,
                   err, dErr, upsertVars,
                   walkVars, restoreVars, envVars, peerVars>>

GrantPermissionsMutFatal ==
    /\ pc = "grant"
    /\ \E g1 \in BOOLEAN, g2 \in BOOLEAN :
        /\ failed' = failed \cup (IF g1 THEN {} ELSE {"icacls.file"})
                            \cup (IF g2 THEN {} ELSE {"icacls.folder"})
        /\ pc' = IF g1 /\ g2 THEN "restore1" ELSE "pf_ret"
        /\ err' = IF g1 /\ g2 THEN err ELSE "icacls"
    /\ calls' = calls \o <<"icacls.file", "icacls.folder">>
    /\ UNCHANGED <<now, mainVars, storeVars, file, scratch, deferred, from,
                   dErr, since, upsertVars,
                   walkVars, restoreVars, envVars, peerVars>>

\* grantPermissions: two icacls commands, failures are only logged.
GrantPermissions ==
    /\ pc = "grant"
    /\ \E g1 \in BOOLEAN, g2 \in BOOLEAN :
        failed' = failed \cup (IF g1 THEN {} ELSE {"icacls.file"})
                         \cup (IF g2 THEN {} ELSE {"icacls.folder"})
    /\ calls' = calls \o <<"icacls.file", "icacls.folder">>
    /\ pc' = "restore1"
    /\ UNCHANGED <<now, mainVars, storeVars, file, scratch, deferred, err, from,
                   dErr, since, upsertVars,
                   walkVars, restoreVars, envVars, peerVars>>

\* ------------------------------------------------------------- restoreDB
SqlStep == <<"sqlcmd.FILELISTONLY", "sqlcmd.DataPath", "sqlcmd.SINGLE_USER",
             "sqlcmd.RESTORE", "sqlcmd.MULTI_USER">>

RestoreStepFatalMutNot1(n) == n \in {3, 4}

RestoreStepFatalMutNot3(n) == n \in {1, 4}

RestoreStepFatalMutAlso5(n) == n \in {1, 3, 4, 5}

RestoreStepFatalMutNot4(n) == n \in {1, 3}

\* The sqlcmd steps whose failure makes restoreDB return an error.
RestoreStepFatal(n) == n \in {1, 3, 4}

StepPc(n) == IF n = 1 THEN "restore1" ELSE IF n = 2 THEN "restore2"
             ELSE IF n = 3 THEN "restore3" ELSE IF n = 4 THEN "restore4"
             ELSE IF n = 5 THEN "restore5" ELSE "update"

\* Step n of restoreDB; after step 5 restoreDB returns nil and processFile
\* goes on to runUpdateQuery, after a fatal failure processFile returns it.
RestoreStep(n) ==
    /\ pc = StepPc(n)
    /\ \E ok \in BOOLEAN :
        /\ Call(SqlStep[n], ok)
        /\ IF ~ok /\ RestoreStepFatal(n)
           THEN /\ err' = SqlStep[n]
                /\ pc' = "pf_ret"
           ELSE /\ err' = err
                /\ pc' = StepPc(n + 1)
    /\ UNCHANGED <<now, mainVars, storeVars, file, scratch, deferred, from, dErr,
                   since, upsertVars, walkVars, envVars, peerVars>>

\* In the batch run only the outcome of each command is followed; the texts
\* restoreDB reads and builds are followed in SpecRestore.
RestoreFileList == RestoreStep(1) /\ UNCHANGED restoreVars

RestoreDataPath == RestoreStep(2) /\ UNCHANGED restoreVars

RestoreSingleUser == RestoreStep(3) /\ UNCHANGED restoreVars

RestoreDatabase == RestoreStep(4) /\ UNCHANGED restoreVars

RestoreMultiUser == RestoreStep(5) /\ UNCHANGED restoreVars

AfterUpdateQueryMutIgnore(ok) == "dfus_delete"

\* processFile after runUpdateQuery: an error is returned at once.
AfterUpdateQuery(ok) == IF ok THEN "dfus_delete" ELSE "pf_ret"

RunUpdateQuery ==
    /\ pc = "update"
    /\ \E ok \in BOOLEAN :
        /\ Call("sqlcmd.UPDATE_QUERY", ok)
        /\ pc' = AfterUpdateQuery(ok)
        /\ from' = IF AfterUpdateQuery(ok) = "dfus_delete" THEN "finalize" ELSE from
        /\ err' = IF AfterUpdateQuery(ok) = "dfus_delete" THEN err
                  ELSE "sqlcmd.UPDATE_QUERY"
    /\ UNCHANGED <<now, mainVars, storeVars, file, scratch, deferred, dErr, since,
                   upsertVars,
                   walkVars, restoreVars, envVars, peerVars>>

\* ---------------------------------------- deleteFileAndUpdateSpreadsheet
DfusAfterDeleteMutIgnore(ok) == "dfus_parent"

\* After Files.Delete: an error is returned before any ledger work.
DfusAfterDelete(ok) == IF ok THEN "dfus_parent" ELSE "dfus_ret"

DfusDelete ==
    /\ pc = "dfus_delete"
    /\ \E ok \in BOOLEAN :
        /\ Call("Drive.Delete", ok)
        /\ pc' = DfusAfterDelete(ok)
        /\ drive' = IF ok THEN drive \ {cur} ELSE drive
        /\ dErr' = IF ok THEN dErr ELSE "Drive.Delete"
    /\ UNCHANGED <<now, mainVars, ledger, ledger0, file, scratch, deferred, err,
                   from, since, upsertVars,
                   walkVars, restoreVars, envVars, peerVars>>

getParentFolderNameMutPlaceholder(f) ==
    IF Len(f.Parents) > 0
    THEN { [gets |-> 1, ok |-> FALSE, name |-> EmptyStr],
           [gets |-> 1, ok |-> TRUE, name |-> FolderName(f.Parents[1])] }
    ELSE { [gets |-> 1, ok |-> FALSE, name |-> EmptyStr],
           [gets |-> 1, ok |-> TRUE, name |-> <<"?">>],
           [gets |-> 2, ok |-> FALSE, name |-> EmptyStr] }
         \cup { [gets |-> 2, ok |-> TRUE, name |-> FolderName(p)] : p \in ParentIds }

\* getParentFolderName: the possible results, with the number of Files.Get
\* calls made.  Parents recorded on the file: one Get of the parent.  None
\* recorded: a Get of the file's parents, then a Get of the first of them.
getParentFolderName(f) ==
    IF Len(f.Parents) > 0
    THEN { [gets |-> 1, ok |-> FALSE, name |-> EmptyStr],
           [gets |-> 1, ok |-> TRUE, name |-> FolderName(f.Parents[1])] }
    ELSE { [gets |-> 1, ok |-> FALSE, name |-> EmptyStr],
           [gets |-> 1, ok |-> TRUE, name |-> EmptyStr],
           [gets |-> 2, ok |-> FALSE, name |-> EmptyStr] }
         \cup { [gets |-> 2, ok |-> TRUE, name |-> FolderName(p)] : p \in ParentIds }

DfusParentMutReturn ==
    /\ pc = "dfus_parent"
    /\ \E r \in getParentFolderName(file) :
        /\ calls' = calls \o [k \in 1..r.gets |-> "Drive.Get"]
        /\ failed' = IF r.ok THEN failed ELSE failed \cup {"Drive.Get"}
        /\ IF r.ok
           THEN /\ kab' = r.name
                /\ createdTime' = formatCreatedTime(file.CreatedTime)
                /\ pc' = "u_read"
                /\ dErr' = dErr
           ELSE /\ pc' = "dfus_ret"
                /\ dErr' = "Drive.Get"
                /\ UNCHANGED <<kab, createdTime,
                               walkVars, restoreVars, envVars, peerVars>>
    /\ UNCHANGED <<now, mainVars, storeVars, file, scratch, deferred, err, from,
                   since, rowIndex, ups,
                   walkVars, restoreVars, envVars, peerVars>>

\* parentName, pErr := getParentFolderName(srv, file): on an error the ledger
\* is left alone, else upsertSpreadsheetRow is called.
DfusParent ==
    /\ pc = "dfus_parent"
    /\ \E r \in getParentFolderName(file) :
        /\ calls' = calls \o [k \in 1..r.gets |-> "Drive.Get"]
        /\ failed' = IF r.ok THEN failed ELSE failed \cup {"Drive.Get"}
        /\ IF r.ok
           THEN /\ kab' = r.name
                /\ createdTime' = formatCreatedTime(file.CreatedTime)
                /\ pc' = "u_read"
                /\ dErr' = dErr
           ELSE /\ pc' = "dfus_ret"
                /\ dErr' = "nil"
                /\ UNCHANGED <<kab, createdTime,
                               walkVars, restoreVars, envVars, peerVars>>
    /\ UNCHANGED <<now, mainVars, storeVars, file, scratch, deferred, err, from,
                   since, rowIndex, ups,
                   walkVars, restoreVars, envVars, peerVars>>

UpsertReadMutGoOn ==
    /\ pc = "u_read"
    /\ \E ok \in BOOLEAN :
        /\ Call("Sheets.Get", ok)
        /\ rowIndex' = IF ok THEN FindRow(ledger, kab) ELSE -1
        /\ pc' = "u_write"
        /\ ups' = ups
    /\ UNCHANGED <<now, mainVars, storeVars, file, scratch, deferred, err, from,
                   dErr, since, kab, createdTime,
                   walkVars, restoreVars, envVars, peerVars>>

\* -------------------------------------------------- upsertSpreadsheetRow
\* Values.Get("A:B") and the scan of column A.
UpsertRead ==
    /\ pc = "u_read"
    /\ \E ok \in BOOLEAN :
        /\ Call("Sheets.Get", ok)
        /\ rowIndex' = IF ok THEN FindRow(ledger, kab) ELSE -1
        /\ pc' = IF ok THEN "u_write" ELSE "u_ret"
        /\ ups' = IF ok THEN ups ELSE Append(ups, <<kab, createdTime, "Sheets.Get">>)
    /\ UNCHANGED <<now, mainVars, storeVars, file, scratch, deferred, err, from,
                   dErr, since, kab, createdTime,
                   walkVars, restoreVars, envVars, peerVars>>

\* rowIndex >= 0: Values.Update of cell B<rowIndex+1>.
UpsertUpdate ==
    /\ pc = "u_write"
    /\ rowIndex >= 0
    /\ \E ok \in BOOLEAN :
        /\ Call("Sheets.Update", ok)
        /\ ledger' = IF ok THEN UpdateCell(ledger, rowIndex + 1, createdTime)
                     ELSE ledger
        /\ ups' = Append(ups, <<kab, createdTime, IF ok THEN "nil" ELSE "Sheets.Update">>)
    /\ pc' = "u_ret"
    /\ UNCHANGED <<now, mainVars, drive, ledger0, file, scratch, deferred, err,
                   from, dErr, since, kab, createdTime, rowIndex,
                   walkVars, restoreVars, envVars, peerVars>>

\* rowIndex < 0: Values.Append of the row [kab, createdTime].
UpsertAppend ==
    /\ pc = "u_write"
    /\ rowIndex < 0
    /\ \E ok \in BOOLEAN :
        /\ Call("Sheets.Append", ok)
        /\ ledger' = IF ok THEN AppendRow(ledger, kab, createdTime) ELSE ledger
        /\ ups' = Append(ups, <<kab, createdTime, IF ok THEN "nil" ELSE "Sheets.Append">>)
    /\ pc' = "u_ret"
    /\ UNCHANGED <<now, mainVars, drive, ledger0, file, scratch, deferred, err,
                   from, dErr, since, kab, createdTime, rowIndex,
                   walkVars, restoreVars, envVars, peerVars>>

DfusResultMutReturn(uErr) == uErr

\* deleteFileAndUpdateSpreadsheet after upsertSpreadsheetRow: an error is
\* logged as a warning and nil is returned.
DfusResult(uErr) == "nil"

DfusAfterUpsert ==
    /\ pc = "u_ret"
    /\ dErr' = DfusResult(ups[Len(ups)][3])
    /\ pc' = "dfus_ret"
    /\ UNCHANGED <<now, mainVars, storeVars, file, calls, failed, scratch,
                   deferred, err, from, since, upsertVars,
                   walkVars, restoreVars, envVars, peerVars>>

CleanupReturnMutReturn ==
    /\ pc = "dfus_ret"
    /\ from = "cleanup"
    /\ err' = dErr
    /\ pc' = "pf_ret"
    /\ UNCHANGED <<now, mainVars, storeVars, file, calls, failed, scratch,
                   deferred, from, dErr, since, upsertVars,
                   walkVars, restoreVars, envVars, peerVars>>

\* Back in processFile's cleanup branch: the result is dropped and the
\* extraction error is returned.
CleanupReturn ==
    /\ pc = "dfus_ret"
    /\ from = "cleanup"
    /\ pc' = "pf_ret"
    /\ UNCHANGED <<now, mainVars, storeVars, fileVars, upsertVars,
                   walkVars, restoreVars, envVars, peerVars>>

\* Back in processFile's last step: the result is returned.
FinalizeReturn ==
    /\ pc = "dfus_ret"
    /\ from = "finalize"
    /\ err' = dErr
    /\ pc' = "pf_ret"
    /\ UNCHANGED <<now, mainVars, storeVars, file, calls, failed, scratch,
                   deferred, from, dErr, since, upsertVars,
                   walkVars, restoreVars, envVars, peerVars>>

\* --------------------------------------------------------- specification
ProcessFile ==
    \/ DeleteSmallFile \/ CreateTempDir
    \/ DownloadFile \/ Extract7z \/ FindBakFile \/ ExtractionFailed
    \/ GrantPermissions
    \/ RestoreFileList \/ RestoreDataPath \/ RestoreSingleUser
    \/ RestoreDatabase \/ RestoreMultiUser
    \/ RunUpdateQuery
    \/ DfusDelete \/ DfusParent
    \/ UpsertRead \/ UpsertUpdate \/ UpsertAppend \/ DfusAfterUpsert
    \/ CleanupReturn \/ FinalizeReturn
    \/ ProcessFileReturn

Next ==
    \/ GetFilesFromFolder
    \/ LoopNext
    \/ LoopEnd
    \/ ProcessFile

Spec == Init /\ [][Next]_vars

\* The batch run is a sequential program: a step that can be taken is taken.
SpecLive == Spec /\ WF_vars(Next)

\* ------------------------------------------------- main from its start
\* The whole process: .env, the configuration check, the tool and client
\* set-up, then the batch run of Spec.  Each failure is a log.Fatal.
RequiredOptions == Options \ {"DB_USER", "DB_PASS"}

\* Environments: complete ones (with and without user and password), one
\* required option empty, nothing set.
Configs ==
    {Options, RequiredOptions} \cup {Options \ {o} : o \in RequiredOptions} \cup {{}}

ConfigCompleteMutNoName(e) == RequiredOptions \ {"DB_NAME"} \subseteq e

\* The "Missing required environment variables" test passes.
ConfigComplete(e) ==
    /\ "DB_HOST" \in e
    /\ "DB_NAME" \in e
    /\ "SEVENZ_PASSWORD" \in e
    /\ "UPDATE_QUERY" \in e
    /\ "SERVICE_ACCOUNT_FILE" \in e
    /\ "SPREADSHEET_ID" \in e

InitStart ==
    /\ pc = "loadenv"
    /\ now = StartNow
    /\ drive \in {1..k : k \in 0..MaxFiles}
    /\ ledger \in InitLedgers
    /\ ledger0 = ledger
    /\ kab = EmptyStr
    /\ InitLocals
    /\ entries = << >>
    /\ bakFile = EmptyStr
    /\ InitRestoreLocals
    /\ env \in Configs

\* A step of main before the listing that touches nothing but its position.
StartStep(at, next) ==
    /\ pc = at
    /\ pc' = next
    /\ UNCHANGED <<now, mainVars, storeVars, fileVars, upsertVars, walkVars,
                   restoreVars, envVars, peerVars>>

\* godotenv.Load()
LoadEnv == \E ok \in BOOLEAN : StartStep("loadenv", IF ok THEN "config" ELSE "fatal")

\* os.Getenv of the eight options and the test for the required ones
CheckConfig == StartStep("config", IF ConfigComplete(env) THEN "tools" ELSE "fatal")

\* exec.LookPath("7z"), exec.LookPath("sqlcmd")
LookPaths ==
    \E z \in BOOLEAN, q \in BOOLEAN :
        StartStep("tools", IF z /\ q THEN "auth" ELSE "fatal")

\* drive.NewService, sheets.NewService
Authenticate ==
    \E d \in BOOLEAN, sh \in BOOLEAN :
        StartStep("auth", IF d /\ sh THEN "list" ELSE "fatal")

NextStart ==
    \/ LoadEnv
    \/ CheckConfig
    \/ LookPaths
    \/ Authenticate
    \/ Next

SpecStart == InitStart /\ [][NextStart]_vars

\* ------------------------------------------- upsertSpreadsheetRow alone
\* Two calls of upsertSpreadsheetRow with one key, on any ledger, with no
\* other writer.
ACells == {<<"a">>, <<"a", Sp>>, <<"b">>, EmptyStr, NonString}

Keys == {<<"a">>, <<Sp, "a">>, <<"b", Sp>>, EmptyStr}

Texts == {FormatInstant(0), FormatInstant(5)}

\* Rows as Values.Get returns them: trailing empty cells are left out.
Rows == {<< >>} \cup {<<a>> : a \in ACells \ {EmptyStr}}
               \cup {<<a, OldText>> : a \in ACells}

\* Grids as Values.Get returns them: trailing empty rows are left out.
Ledgers == UNION {[1..n -> Rows] : n \in 0..MaxRows}

GridOK(l) == Len(l) = 0 \/ l[Len(l)] # << >>

InitUpsert ==
    /\ pc = "u_idle"
    /\ now = StartNow
    /\ drive = {}
    /\ ledger \in {l \in Ledgers : GridOK(l)}
    /\ ledger0 = ledger
    /\ kab \in Keys
    /\ InitLocals
    /\ entries = << >>
    /\ bakFile = EmptyStr
    /\ InitRestoreLocals
    /\ env = Options

UpsertCall ==
    /\ pc = "u_idle"
    /\ Len(ups) < 2
    /\ createdTime' \in Texts
    /\ pc' = "u_read"
    /\ UNCHANGED <<now, mainVars, storeVars, fileVars, kab, rowIndex, ups,
                   walkVars, restoreVars, envVars, peerVars>>

UpsertReturn ==
    /\ pc = "u_ret"
    /\ pc' = "u_idle"
    /\ UNCHANGED <<now, mainVars, storeVars, fileVars, upsertVars,
                   walkVars, restoreVars, envVars, peerVars>>

NextUpsert ==
    \/ UpsertCall
    \/ UpsertRead
    \/ UpsertUpdate
    \/ UpsertAppend
    \/ UpsertReturn

SpecUpsert == InitUpsert /\ [][NextUpsert]_vars


\* ---------------------------------------------------- findBakFile alone
\* One call findBakFile(extractDir) on a tree of extracted entries.
MaxEntries == 3

extractDir == <<"T", PathSep, "e">>

BakSuffix == <<".", "b", "a", "k">>

\* The entries a tree can have below extractDir, in the order filepath.Walk
\* visits them (lexical, a directory before what it holds):
\* a.bak, b.txt, c.bak\ (a directory), c.bak\d.txt, e\, e\f.bak
WalkPaths ==
    << <<"a">> \o BakSuffix,
       <<"b", ".", "t", "x", "t">>,
       <<"c">> \o BakSuffix,
       <<"c">> \o BakSuffix \o <<PathSep, "d", ".", "t", "x", "t">>,
       <<"e">>,
       <<"e", PathSep, "f">> \o BakSuffix >>

IsDirectory(i) == i \in {3, 5}

\* The directory an entry lies in (0: extractDir itself).
ParentOf(i) == IF i = 4 THEN 3 ELSE IF i = 6 THEN 5 ELSE 0

Entry(i, fails) ==
    [path |-> Join(extractDir, WalkPaths[i]), dir |-> IsDirectory(i), fails |-> fails]

RootEntry(fails) == [path |-> extractDir, dir |-> TRUE, fails |-> fails]

TreeSets ==
    {T \in SUBSET (1..Len(WalkPaths)) :
        /\ Cardinality(T) <= MaxEntries
        /\ \A i \in T : ParentOf(i) # 0 => ParentOf(i) \in T}

\* The members of T in increasing order.
RECURSIVE InOrder(_)
InOrder(T) ==
    IF T = {} THEN << >>
    ELSE LET m == CHOOSE i \in T : \A j \in T : i <= j
         IN  <<m>> \o InOrder(T \ {m})

\* What Walk visits: the root, then the entries of a tree; at most one of
\* them cannot be read (f is its position in the visit, 0: none).
Walks ==
    {[k \in 1..(Cardinality(T) + 1) |->
          IF k = 1 THEN RootEntry(f = 1) ELSE Entry(InOrder(T)[k - 1], f = k)] :
       T \in TreeSets, f \in 0..(MaxEntries + 1)}

WalkFnMutFirst(e, found) ==
    IF found = EmptyStr /\ HasSuffix(Base(e.path), BakSuffix) THEN e.path ELSE found

\* The callback of filepath.Walk on an entry that could be read: found is
\* bakFile before the call, the result is bakFile after it.
WalkFn(e, found) ==
    IF HasSuffix(Base(e.path), BakSuffix) THEN e.path ELSE found

\* filepath.Walk from the i-th visit on.  An entry whose lstat fails reaches
\* the callback with the error only; a directory that cannot be read reaches
\* it twice, the second time with the error.  The callback returns the error
\* and Walk stops with it.
RECURSIVE Walk(_, _, _)
Walk(es, i, found) ==
    IF i > Len(es) THEN [bakFile |-> found, err |-> "nil"]
    ELSE IF es[i].fails /\ ~es[i].dir THEN [bakFile |-> found, err |-> "walk error"]
    ELSE IF es[i].fails
         THEN [bakFile |-> WalkFn(es[i], found), err |-> "walk error"]
    ELSE Walk(es, i + 1, WalkFn(es[i], found))

findBakFile(es) ==
    LET w == Walk(es, 1, EmptyStr)
    IN  IF w.err # "nil" THEN [path |-> EmptyStr, err |-> w.err]
        ELSE IF w.bakFile = EmptyStr
             THEN [path |-> EmptyStr, err |-> "no .bak file found"]
        ELSE [path |-> w.bakFile, err |-> "nil"]

InitFind ==
    /\ pc = "find"
    /\ now = StartNow
    /\ drive = {}
    /\ ledger = << >>
    /\ ledger0 = ledger
    /\ kab = EmptyStr
    /\ InitLocals
    /\ entries \in Walks
    /\ bakFile = EmptyStr
    /\ InitRestoreLocals
    /\ env = Options

\* bakFile, err := findBakFile(extractDir) in downloadAndExtract, which
\* hands an error on to processFile.
FindBakFileWalk ==
    /\ pc = "find"
    /\ LET r == findBakFile(entries)
       IN  /\ Call("Walk", r.err = "nil")
           /\ bakFile' = r.path
           /\ err' = r.err
           /\ pc' = IF r.err = "nil" THEN "grant" ELSE "dx_failed"
    /\ UNCHANGED <<now, mainVars, storeVars, file, scratch, deferred, from, dErr,
                   since, upsertVars, entries, restoreVars, envVars, peerVars>>

NextFind == FindBakFileWalk

SpecFind == InitFind /\ [][NextFind]_vars

\* ------------------------------------------------------ restoreDB alone
\* One call restoreDB(host, user, pass, dbName, bakPath) with the texts the
\* two queries print and the RESTORE command it builds.
MaxLines == 2

dbName == <<"d", "b">>

PipeChar == "|"

IsLogTypeMutCaseSensitive(typ) == HasPrefix(typ, <<"L">>)

\* The type code of a manifest row says "log".
IsLogType(typ) == HasPrefix(ToUpper(typ), <<"L">>)

TrimCols(cols) == [i \in 1..Len(cols) |-> TrimSpace(cols[i])]

FileListRowMutFirst(l, names) ==
    LET t == TrimSpace(l)
        cols == TrimCols(Split(t, PipeChar))
    IN  IF t = EmptyStr THEN names
        ELSE IF Len(cols) < 3 THEN names
        ELSE IF IsLogType(cols[3])
             THEN IF names[2] = EmptyStr THEN <<names[1], cols[1]>> ELSE names
        ELSE IF names[1] = EmptyStr THEN <<cols[1], names[2]>> ELSE names

\* One pass of the loop over the lines of the manifest; names is
\* <<dataLogical, logLogical>>.
FileListRow(l, names) ==
    LET t == TrimSpace(l)
        cols == TrimCols(Split(t, PipeChar))
    IN  IF t = EmptyStr THEN names
        ELSE IF Len(cols) < 3 THEN names
        ELSE IF IsLogType(cols[3]) THEN <<names[1], cols[1]>>
        ELSE <<cols[1], names[2]>>

RECURSIVE FileListRows(_, _)
FileListRows(lines, names) ==
    IF lines = << >> THEN names
    ELSE FileListRows(Tail(lines), FileListRow(Head(lines), names))

\* The logical names restoreDB reads from the trimmed output of RESTORE
\* FILELISTONLY, as <<dataLogical, logLogical>>.
ParseFileList(text) ==
    IF text = EmptyStr THEN <<EmptyStr, EmptyStr>>
    ELSE FileListRows(Split(text, NL), <<EmptyStr, EmptyStr>>)

NullText == <<"N", "U", "L", "L">>

ResolveDataPathMutKeepNull(o, bakPath) ==
    IF TrimSpace(o) = EmptyStr THEN Dir(bakPath) ELSE TrimSpace(o)

\* The data path restoreDB derives from the output of the data-path query.
ResolveDataPath(o, bakPath) ==
    LET p == TrimSpace(o)
    IN  IF p = EmptyStr \/ EqualFold(p, NullText) THEN Dir(bakPath) ELSE p

DefaultNameMutKeepEmpty(name, fallback) == name

\* "Use detected logical names or sensible defaults"
DefaultName(name, fallback) == IF name = EmptyStr THEN fallback ELSE name

LogSuffix == <<"_", "l", "o", "g">>

MdfName == dbName \o <<".", "m", "d", "f">>

LdfName == dbName \o LogSuffix \o <<".", "l", "d", "f">>

\* RESTORE DATABASE db FROM DISK=disk WITH REPLACE, MOVE dataName TO
\* mdfTarget, MOVE logName TO ldfTarget
RestoreQuery(bakPath, dataName, logName, path) ==
    [db |-> dbName, disk |-> bakPath,
     dataName |-> dataName, mdfTarget |-> Join(path, MdfName),
     logName |-> logName, ldfTarget |-> Join(path, LdfName)]

\* Texts sqlcmd can print for RESTORE FILELISTONLY with -h -1 -W -s "|":
\* rows name|physical|type[|more], and lines that are no such rows.
LogicalNames == {<<"x">>, <<"y">>}

TypeCodes == {<<"D">>, <<"L">>, <<"l">>, EmptyStr}

Row(name, typ) == name \o <<PipeChar, "p", PipeChar>> \o typ

FileListLines ==
    {Row(n, t) : n \in LogicalNames, t \in TypeCodes}
    \cup {<<Sp, "x", Sp, PipeChar, "p", PipeChar, Sp, "L", "O", "G", Sp>>,
          <<"y", PipeChar, "p", PipeChar, "S", PipeChar, "1">>,
          <<PipeChar, "p", PipeChar, "D">>,
          <<"x", PipeChar, "L">>, <<Sp>>, EmptyStr}

RECURSIVE JoinLines(_)
JoinLines(ls) ==
    IF ls = << >> THEN EmptyStr ELSE Head(ls) \o <<NL>> \o JoinLines(Tail(ls))

FileListOutputs ==
    {JoinLines(ls) : ls \in UNION {[1..n -> FileListLines] : n \in 0..MaxLines}}

\* Texts the data-path query can print: nothing, NULL in some spelling, a
\* directory (with or without a separator at its end), a message.
DataPathOutputs ==
    {EmptyStr, NullText \o <<NL>>,
     <<Sp, "N", "u", "l", "l", "\r", NL>>,
     <<"D", ":", PathSep, "m", PathSep, NL>>, <<"D", ":", PathSep, "m", NL>>,
     <<"E", "r", "r", "o", "r", NL>>}

\* Paths findBakFile can return: entries below extractDir.
BakPaths == {findBakFile(es).path : es \in {w \in Walks : findBakFile(w).err = "nil"}}

InitRestore ==
    /\ pc = "restore1"
    /\ now = StartNow
    /\ drive = {}
    /\ ledger = << >>
    /\ ledger0 = ledger
    /\ kab = EmptyStr
    /\ files = << >>
    /\ idx = 0
    /\ handed = << >>
    /\ results = << >>
    /\ completed = FALSE
    /\ file = DefaultRec
    /\ calls = << >>
    /\ failed = {}
    /\ scratch = TRUE
    /\ deferred = TRUE
    /\ err = "nil"
    /\ from = "none"
    /\ dErr = "nil"
    /\ since = -1
    /\ createdTime = ""
    /\ rowIndex = -1
    /\ ups = << >>
    /\ entries = << >>
    /\ bakFile \in BakPaths
    /\ InitRestoreLocals
    /\ env = Options

\* Step 1 with its output: on success the manifest is read, on failure
\* restoreDB returns before it looks at the output.
FileListOnly ==
    /\ RestoreStep(1)
    /\ out' \in FileListOutputs
    /\ IF SqlStep[1] \in failed'
       THEN UNCHANGED <<listOut, dataLogical, logLogical>>
       ELSE /\ listOut' = TrimSpace(out')
            /\ dataLogical' = ParseFileList(listOut')[1]
            /\ logLogical' = ParseFileList(listOut')[2]
    /\ UNCHANGED <<dataPath, query>>

\* Step 2 with its output, and the statements up to step 3: the output is
\* used whether or not the command failed; then the defaults for the names.
InstanceDataPath ==
    /\ RestoreStep(2)
    /\ out' \in DataPathOutputs
    /\ dataPath' = ResolveDataPath(out', bakFile)
    /\ dataLogical' = DefaultName(dataLogical, dbName)
    /\ logLogical' = DefaultName(logLogical, dbName \o LogSuffix)
    /\ UNCHANGED <<listOut, query>>

\* Step 4: the command is built from the names and the data path.
RestoreWithMove ==
    /\ RestoreStep(4)
    /\ query' = Append(query, RestoreQuery(bakFile, dataLogical, logLogical, dataPath))
    /\ UNCHANGED <<out, listOut, dataLogical, logLogical, dataPath>>

NextRestore ==
    \/ FileListOnly
    \/ InstanceDataPath
    \/ RestoreSingleUser
    \/ RestoreWithMove
    \/ RestoreMultiUser

SpecRestore == InitRestore /\ [][NextRestore]_vars

\* ------------------------------------ upsertSpreadsheetRow, two runs
\* Two batch runs (two processes of this program) call upsertSpreadsheetRow
\* for one key on one sheet.  Each Sheets request is one step; nothing orders
\* the requests of one run against those of the other.
InitRace ==
    /\ pc = "u_read"
    /\ now = StartNow
    /\ drive = {}
    /\ ledger \in {l \in Ledgers : GridOK(l)}
    /\ ledger0 = ledger
    /\ kab \in Keys
    /\ files = << >>
    /\ idx = 0
    /\ handed = << >>
    /\ results = << >>
    /\ completed = FALSE
    /\ file = DefaultRec
    /\ calls = << >>
    /\ failed = {}
    /\ scratch = FALSE
    /\ deferred = FALSE
    /\ err = "nil"
    /\ from = "none"
    /\ dErr = "nil"
    /\ since = -1
    /\ createdTime = FormatInstant(0)
    /\ rowIndex = -1
    /\ ups = << >>
    /\ entries = << >>
    /\ bakFile = EmptyStr
    /\ out = EmptyStr
    /\ listOut = EmptyStr
    /\ dataLogical = EmptyStr
    /\ logLogical = EmptyStr
    /\ dataPath = EmptyStr
    /\ query = << >>
    /\ env = Options
    /\ other = [pc |-> "u_read", rowIndex |-> -1, createdTime |-> FormatInstant(5),
                err |-> "nil"]

\* The other run: Values.Get("A:B") and the scan of column A.
OtherRead ==
    /\ other.pc = "u_read"
    /\ \E ok \in BOOLEAN :
        other' = IF ok
                 THEN [other EXCEPT !.pc = "u_write", !.rowIndex = FindRow(ledger, kab)]
                 ELSE [other EXCEPT !.pc = "u_ret", !.err = "Sheets.Get"]
    /\ UNCHANGED <<pc, now, mainVars, storeVars, fileVars, upsertVars, walkVars,
                   restoreVars, envVars>>

UpsertWriteMutFresh(l, ri, key, text) ==
    IF FindRow(l, key) >= 0 THEN UpdateCell(l, FindRow(l, key) + 1, text)
    ELSE AppendRow(l, key, text)

\* The sheet after the write request of upsertSpreadsheetRow: ri is the
\* rowIndex its scan left, l the sheet when the request arrives.
UpsertWrite(l, ri, key, text) ==
    IF ri >= 0 THEN UpdateCell(l, ri + 1, text) ELSE AppendRow(l, key, text)

\* The other run: Values.Update or Values.Append, as its rowIndex says.
OtherWrite ==
    /\ other.pc = "u_write"
    /\ \E ok \in BOOLEAN :
        /\ ledger' = IF ok THEN UpsertWrite(ledger, other.rowIndex, kab, other.createdTime)
                     ELSE ledger
        /\ other' = [other EXCEPT !.pc = "u_ret",
                                  !.err = IF ok THEN "nil" ELSE "Sheets.Write"]
    /\ UNCHANGED <<pc, now, mainVars, drive, ledger0, fileVars, upsertVars, walkVars,
                   restoreVars, envVars>>

NextRace ==
    \/ UpsertRead
    \/ UpsertUpdate
    \/ UpsertAppend
    \/ OtherRead
    \/ OtherWrite

SpecRace == InitRace /\ [][NextRace]_vars

\* ------------------------------------------------------------ vocabulary
SheetsCalls == {"Sheets.Get", "Sheets.Update", "Sheets.Append"}

SqlCalls == {SqlStep[n] : n \in 1..5} \cup {"sqlcmd.UPDATE_QUERY"}

IssuedAny(S) == \E k \in 1..Len(calls) : calls[k] \in S

Deleted == Issued("Drive.Delete") /\ "Drive.Delete" \notin failed

\* processFile has returned, or is about to (only the deferred removal is left).
Returning == pc \in {"pf_ret", "loop", "done", "fatal"} /\ idx > 0

\* main has logged the outcome of the current file.
Logged == pc \in {"loop", "done"} /\ idx > 0

ExtractionError == "7z" \in failed \/ "Walk" \in failed

\* --------------------------------------------------------------- claims

\* C1: for a file whose size is below 10240 bytes processFile issues the
\* source deletion and nothing else: no scratch directory, no download, no
\* extraction, no restore step, no correction query, no ledger call, whether
\* the deletion succeeds or fails.
C1_SmallFileOnlyDeleted ==
    (idx > 0 /\ pc # "fatal" /\ file.Size < 10240) =>
        /\ calls = IF pc = "pf_start" THEN << >> ELSE <<"Drive.Delete">>
        /\ ~scratch
        /\ ~deferred
        /\ Len(ups) = 0

C1_Witness ==
    /\ pc = "pf_ret"
    /\ file.Size = 2048
    /\ calls = <<"Drive.Delete">>
    /\ "Drive.Delete" \in failed

\* C2: when restore and correction query both succeeded, the source deletion
\* is issued before any ledger call, and when that deletion fails no ledger
\* call is made for the file.
C2_DeleteBeforeLedger ==
    (Issued("sqlcmd.UPDATE_QUERY") /\ "sqlcmd.UPDATE_QUERY" \notin failed) =>
        /\ pc # "dfus_delete" => Issued("Drive.Delete")
        /\ IssuedAny(SheetsCalls) =>
              /\ Issued("Drive.Delete")
              /\ \A k \in 1..Len(calls) :
                    calls[k] \in SheetsCalls => FirstIndex("Drive.Delete") < k
        /\ "Drive.Delete" \in failed =>
              /\ ~IssuedAny(SheetsCalls)
              /\ Len(ups) = 0

C2_Witness ==
    /\ pc = "pf_ret"
    /\ "sqlcmd.UPDATE_QUERY" \notin failed
    /\ Deleted
    /\ Issued("Sheets.Append")
    /\ Len(ups) = 1 /\ ups[1][3] = "nil"

\* C3: when extraction or the search for the backup file failed and the file
\* was less than 10 minutes old, no source deletion and no ledger call is
\* issued, the file is reported as failed and is still in the remote store.
C3_YoungFileLeftAlone ==
    (ExtractionError /\ since >= 0 /\ since < 10) =>
        /\ pc \in {"pf_ret", "loop", "done"}
        /\ ~Issued("Drive.Delete")
        /\ ~IssuedAny(SheetsCalls)
        /\ Len(ups) = 0
        /\ cur \in drive
        /\ err # "nil"
        /\ Logged => results[idx] = "err"

C3_Witness ==
    /\ pc = "loop"
    /\ "7z" \in failed
    /\ since = 9
    /\ results[idx] = "err"
    /\ cur \in drive


\* C4 as stated: when extraction or the search for the backup file failed and
\* the file was at least 10 minutes old, the source is deleted from the
\* remote store and a ledger row for its grouping key is upserted, with no
\* restore step executed.
C4_Original ==
    (Returning /\ ExtractionError /\ since >= 10) =>
        /\ cur \notin drive
        /\ Len(ups) = 1 /\ ups[1][3] = "nil"
        /\ ~IssuedAny(SqlCalls)

\* C4 as amended: in that case the source deletion is issued and no restore
\* step is executed; if the deletion succeeds the file is gone from the
\* store and, unless the parent-folder lookup fails, one upsert is made with
\* the folder's name and the formatted creation time, which on success
\* leaves that text in the first row matching the key; if the deletion fails
\* the file stays in the store and no ledger call is made.
C4_OldFileCleanedUp ==
    (Returning /\ ExtractionError /\ since >= 10) =>
        /\ Count("Drive.Delete") = 1
        /\ ~IssuedAny(SqlCalls)
        /\ Deleted =>
              /\ cur \notin drive
              /\ "Drive.Get" \notin failed =>
                    /\ Len(ups) = 1
                    /\ ups[1][1] = kab
                    /\ ups[1][2] = formatCreatedTime(file.CreatedTime)
                    /\ Len(file.Parents) > 0 => kab = FolderName(file.Parents[1])
                    /\ ups[1][3] = "nil" =>
                          /\ FindRow(ledger, kab) >= 0
                          /\ ColB(ledger[FindRow(ledger, kab) + 1]) = ups[1][2]
              /\ "Drive.Get" \in failed => ~IssuedAny(SheetsCalls)
        /\ ~Deleted =>
              /\ cur \in drive
              /\ ~IssuedAny(SheetsCalls)
              /\ ~Issued("Drive.Get")

C4_Witness ==
    /\ pc = "pf_ret"
    /\ "Walk" \in failed
    /\ since = 10
    /\ Deleted
    /\ cur \notin drive
    /\ Len(ups) = 1 /\ ups[1][3] = "nil"
    /\ ~IssuedAny(SqlCalls)

\* C5: when restore step 1, 3 or 4 or the correction query failed, the file
\* ends as failed, no source deletion and no ledger call is issued, and the
\* file is still in the remote store.
C5_RestoreFailureKeepsSource ==
    (\E c \in {SqlStep[1], SqlStep[3], SqlStep[4], "sqlcmd.UPDATE_QUERY"} : c \in failed) =>
        /\ pc \in {"pf_ret", "loop", "done"}
        /\ err # "nil"
        /\ ~Issued("Drive.Delete")
        /\ ~IssuedAny(SheetsCalls)
        /\ Len(ups) = 0
        /\ cur \in drive
        /\ Logged => results[idx] = "err"

C5_Witness ==
    /\ pc = "loop"
    /\ "sqlcmd.UPDATE_QUERY" \in failed
    /\ results[idx] = "err"
    /\ cur \in drive

\* C6: every listed file is passed to processFile exactly once, in list
\* order; a failed file does not stop the loop (the process stops early only
\* when the listing failed); each file gets exactly one logged outcome.
C6_EveryFileOnceInOrder ==
    /\ handed = SubSeq(files, 1, idx)
    /\ \A j, k \in 1..Len(files) : files[j] = files[k] => j = k
    /\ Len(results) = IF pc \in {"loop", "done"} THEN idx ELSE IF idx = 0 THEN 0 ELSE idx - 1
    /\ pc = "fatal" => idx = 0 /\ files = << >>
    /\ pc = "done" => handed = files /\ Len(results) = Len(files)

C6_Witness ==
    /\ pc = "done"
    /\ Len(files) = 2
    /\ handed = files
    /\ results = <<"err", "ok">>

\* C7: once the listing has succeeded the run always ends by logging the
\* completion message, however many files failed.
C7_RunCompletes == (pc = "loop") ~> completed

C7_Witness ==
    /\ completed
    /\ Len(results) = 2
    /\ \A k \in 1..2 : results[k] = "err"

C10_UpsertIdempotent ==
    LET before == Cardinality(RowsFor(ledger0, kab))
        after == Cardinality(RowsFor(ledger, kab))
    IN  /\ after <= (IF before = 0 THEN 1 ELSE before)
        /\ (pc = "u_idle" /\ Len(ups) = 2 /\ ups[2][3] = "nil") =>
              /\ after = (IF before = 0 THEN 1 ELSE before)
              /\ FindRow(ledger, kab) >= 0
              /\ ColB(ledger[FindRow(ledger, kab) + 1]) = ups[2][2]

C10_Witness ==
    /\ pc = "u_idle"
    /\ Len(ups) = 2
    /\ ups[1][3] = "nil" /\ ups[2][3] = "nil"
    /\ ups[1][2] # ups[2][2]
    /\ RowsFor(ledger0, kab) = {}
    /\ Len(ledger0) > 0
    /\ Cardinality(RowsFor(ledger, kab)) = 1
    /\ ColB(ledger[Len(ledger)]) = ups[2][2]


\* An upsert has just returned nil (a step of upsertSpreadsheetRow's write).
UpsertSucceeds ==
    /\ Len(ups') = Len(ups) + 1
    /\ ups'[Len(ups')][3] = "nil"

FirstMatch(l, key) == CHOOSE m \in RowsFor(l, key) : \A k \in RowsFor(l, key) : m <= k

\* C11: when some row's trimmed column-A text equals the trimmed key, a
\* successful upsert overwrites column B of the first such row and appends
\* nothing: the ledger keeps its length, the rows matching the key are the
\* same, and every other cell is as before.
C11_UpdateInPlace ==
    [][(UpsertSucceeds /\ RowsFor(ledger, kab) # {}) =>
          LET m == FirstMatch(ledger, kab)
          IN  /\ Len(ledger') = Len(ledger)
              /\ \A k \in 1..Len(ledger) : k # m => ledger'[k] = ledger[k]
              /\ Len(ledger'[m]) = 2
              /\ ledger'[m][1] = ledger[m][1]
              /\ ledger'[m][2] = createdTime
              /\ RowsFor(ledger', kab) = RowsFor(ledger, kab)
              /\ calls'[Len(calls')] = "Sheets.Update"]_vars

C11_Witness ==
    /\ pc = "u_ret"
    /\ Len(ups) = 1 /\ ups[1][3] = "nil"
    /\ Cardinality(RowsFor(ledger0, kab)) = 2
    /\ ledger0[1][1] # kab
    /\ Len(ledger) = 2
    /\ ColB(ledger[1]) = createdTime
    /\ ledger[2] = ledger0[2]
    /\ ledger # ledger0

\* C12: when no row's trimmed column-A text equals the trimmed key, a
\* successful upsert appends exactly one row of two cells, the key as given
\* and the timestamp text, after the last row, and leaves every existing row
\* as it was.
C12_AppendWhenAbsent ==
    [][(UpsertSucceeds /\ RowsFor(ledger, kab) = {}) =>
          /\ Len(ledger') = Len(ledger) + 1
          /\ \A k \in 1..Len(ledger) : ledger'[k] = ledger[k]
          /\ ledger'[Len(ledger')] = <<kab, createdTime>>
          /\ calls'[Len(calls')] = "Sheets.Append"]_vars

C12_Witness ==
    /\ pc = "u_ret"
    /\ Len(ups) = 1 /\ ups[1][3] = "nil"
    /\ RowsFor(ledger0, kab) = {}
    /\ Len(ledger0) = 2
    /\ kab # TrimSpace(kab)
    /\ ledger = Append(ledger0, <<kab, createdTime>>)

\* restoreDB returned an error to processFile, which returns it in turn: the
\* correction query is never reached.
RestoreFailedWith(c) ==
    /\ err = c
    /\ pc \in {"pf_ret", "loop", "done"}
    /\ ~Issued("sqlcmd.UPDATE_QUERY")

\* C13: when restore step 3 (single-user mode) failed, neither step 4 nor
\* step 5 is issued and restoreDB reports failure.
C13_SingleUserFailureStops ==
    SqlStep[3] \in failed =>
        /\ ~Issued(SqlStep[4])
        /\ ~Issued(SqlStep[5])
        /\ RestoreFailedWith(SqlStep[3])

C13_Witness ==
    /\ pc = "pf_ret"
    /\ SqlStep[3] \in failed
    /\ SqlStep[2] \in failed
    /\ calls[Len(calls)] = SqlStep[3]
    /\ err = SqlStep[3]

\* C14: when restore steps 1, 3 and 4 succeeded and step 5 (multi-user mode)
\* failed, restoreDB reports success: processFile goes on to the correction
\* query and no restore error is returned.
C14_MultiUserFailureIgnored ==
    (SqlStep[5] \in failed /\ failed \cap {SqlStep[1], SqlStep[3], SqlStep[4]} = {}) =>
        /\ err \notin {SqlStep[n] : n \in 1..5}
        /\ pc = "update" \/ Issued("sqlcmd.UPDATE_QUERY")

C14_Witness ==
    /\ pc = "update"
    /\ SqlStep[5] \in failed
    /\ failed \cap {SqlStep[1], SqlStep[3], SqlStep[4]} = {}
    /\ calls[Len(calls)] = SqlStep[5]
    /\ err = "nil"

\* C15: when the manifest query of restore step 1 failed, restoreDB reports
\* failure and none of steps 2 to 5 is issued.
C15_ManifestFailureStops ==
    SqlStep[1] \in failed =>
        /\ \A n \in 2..5 : ~Issued(SqlStep[n])
        /\ RestoreFailedWith(SqlStep[1])

C15_Witness ==
    /\ pc = "pf_ret"
    /\ SqlStep[1] \in failed
    /\ calls[Len(calls)] = SqlStep[1]
    /\ err = SqlStep[1]

\* ---- the manifest as the claims describe it
ManifestLines == Split(listOut, NL)

Cols(l) == TrimCols(Split(TrimSpace(l), PipeChar))

\* A line of the manifest that is a row: not blank, three columns or more.
IsRow(l) == TrimSpace(l) # EmptyStr /\ Len(Cols(l)) >= 3

NoRows ==
    LET lines == ManifestLines
    IN  \A k \in 1..Len(lines) : ~IsRow(lines[k])

Succeeded(c) == Issued(c) /\ c \notin failed

\* C16: when the manifest query succeeded and printed nothing, or only blank
\* and malformed lines, restoreDB does not stop there: step 2 and step 3 are
\* issued, steps 4 and 5 follow as after any manifest, and the RESTORE
\* command names dbName as data file and dbName_log as log file.
C16_EmptyManifestDefaults ==
    (Succeeded(SqlStep[1]) /\ NoRows) =>
        /\ err # SqlStep[1]
        /\ pc = "restore2" \/ Issued(SqlStep[2])
        /\ pc \in {"restore2", "restore3"} \/ Issued(SqlStep[3])
        /\ Succeeded(SqlStep[3]) => (pc = "restore4" \/ Issued(SqlStep[4]))
        /\ Succeeded(SqlStep[4]) => (pc = "restore5" \/ Issued(SqlStep[5]))
        /\ Issued(SqlStep[4]) =>
              /\ Len(query) = 1
              /\ query[1].dataName = dbName
              /\ query[1].logName = dbName \o LogSuffix

C16_Witness ==
    /\ pc = "update"
    /\ calls = SqlStep
    /\ failed = {}
    /\ NoRows
    /\ listOut # EmptyStr
    /\ query[1].dataName = <<"d", "b">>
    /\ query[1].logName = <<"d", "b", "_", "l", "o", "g">>

\* The directory that holds the backup file, written without filepath.Dir.
BakDir == SubSeq(bakFile, 1, Len(bakFile) - Len(Base(bakFile)) - 1)

\* C17: when the data-path query printed nothing or the text NULL (after
\* trimming), the data path is the directory that holds the backup file, and
\* the two MOVE targets of step 4 are files of that directory.
C17_NullDataPathFallsBack ==
    (Issued(SqlStep[2]) /\ TrimSpace(out) \in {EmptyStr, NullText}) =>
        /\ dataPath = BakDir
        /\ dataPath = Dir(bakFile)
        /\ Issued(SqlStep[4]) =>
              /\ Len(query) = 1
              /\ query[1].mdfTarget = BakDir \o <<PathSep>> \o MdfName
              /\ query[1].ldfTarget = BakDir \o <<PathSep>> \o LdfName
              /\ Dir(query[1].mdfTarget) = Dir(bakFile)
              /\ Dir(query[1].ldfTarget) = Dir(bakFile)

C17_Witness ==
    /\ pc = "restore5"
    /\ failed = {}
    /\ out = <<"N", "U", "L", "L", NL>>
    /\ bakFile = <<"T", PathSep, "e", PathSep, "a", ".", "b", "a", "k">>
    /\ dataPath = <<"T", PathSep, "e">>
    /\ query[1].mdfTarget = <<"T", PathSep, "e", PathSep, "d", "b", ".", "m", "d", "f">>
    /\ query[1].ldfTarget =
          <<"T", PathSep, "e", PathSep, "d", "b", "_", "l", "o", "g", ".", "l", "d", "f">>

\* C18: when the data-path query of step 2 failed as a command, restoreDB is
\* not aborted and the data path is the directory that holds the backup
\* file, whatever the failed command printed.
C18_FailedDataPathFallsBack ==
    SqlStep[2] \in failed =>
        /\ err # SqlStep[2]
        /\ pc = "restore3" \/ Issued(SqlStep[3])
        /\ dataPath = Dir(bakFile)

\* The positions of the rows of the manifest, and a column of a row.
RowIdx ==
    LET lines == ManifestLines
    IN  {k \in 1..Len(lines) : IsRow(lines[k])}

Col(k, i) == Cols(ManifestLines[k])[i]

\* The first column of the last of the rows S ("": there is none).
NameTaken(S) ==
    IF S = {} THEN EmptyStr
    ELSE Col(CHOOSE k \in S : \A j \in S : j <= k, 1)

StartsWithL(typ) == Len(typ) > 0 /\ typ[1] = "L"

StartsWithLAnyCase(typ) == Len(typ) > 0 /\ typ[1] \in {"L", "l"}

\* C19 as stated: after the manifest is read, the log name comes from the
\* rows (three columns or more) whose type code starts with 'L' and the data
\* name from the other rows; blank lines and shorter rows give nothing.
C19_Original ==
    pc = "restore2" =>
        /\ logLogical = NameTaken({k \in RowIdx : StartsWithL(Col(k, 3))})
        /\ dataLogical = NameTaken({k \in RowIdx : ~StartsWithL(Col(k, 3))})

\* C19: the same with the type code compared without regard to case: a row
\* gives the log name if and only if its type code starts with 'L' or 'l'.
C19_KindByTypeCode ==
    pc = "restore2" =>
        /\ logLogical = NameTaken({k \in RowIdx : StartsWithLAnyCase(Col(k, 3))})
        /\ dataLogical = NameTaken({k \in RowIdx : ~StartsWithLAnyCase(Col(k, 3))})

C19_Witness ==
    /\ pc = "restore2"
    /\ Cardinality(RowIdx) = 1
    /\ Len(ManifestLines) = 2
    /\ \E k \in RowIdx : Col(k, 1) = <<"x">> /\ Col(k, 3) = <<"l">>
    /\ logLogical = <<"x">>
    /\ dataLogical = EmptyStr

\* ---- the walk as the claims describe it
Matching == {i \in 1..Len(entries) : HasSuffix(Base(entries[i].path), BakSuffix)}

LastMatching == CHOOSE i \in Matching : \A j \in Matching : j <= i

WalkFails == \E i \in 1..Len(entries) : entries[i].fails

FindReturned == pc \in {"grant", "dx_failed"}

LastMatchOrNotFound ==
    IF Matching # {}
    THEN /\ pc = "grant"
         /\ err = "nil"
         /\ bakFile = entries[LastMatching].path
    ELSE /\ pc = "dx_failed"
         /\ err = "no .bak file found"
         /\ bakFile = EmptyStr

MissingRequired ==
    \E o \in {"DB_HOST", "DB_NAME", "SEVENZ_PASSWORD", "UPDATE_QUERY",
              "SERVICE_ACCOUNT_FILE", "SPREADSHEET_ID"} : o \notin env

\* Nothing has been listed and no file has been touched.
NothingTouched ==
    /\ files = << >>
    /\ handed = << >>
    /\ results = << >>
    /\ calls = << >>
    /\ ups = << >>
    /\ ledger = ledger0
    /\ ~completed

\* C21: when a required option is missing the process stops at the
\* configuration check, before the listing and before any file is downloaded,
\* deleted, restored or recorded; when only the database user or password is
\* empty the check lets the process go on.
C21_ConfigFailFast ==
    [][/\ MissingRequired => (pc' \in {"config", "fatal"} /\ NothingTouched')
       /\ (pc = "config" /\ MissingRequired) => pc' = "fatal"
       /\ (pc = "config" /\ ~MissingRequired) => pc' = "tools"]_vars

C21_Witness ==
    /\ pc = "done"
    /\ env = Options \ {"DB_USER", "DB_PASS"}
    /\ Len(results) = 2
    /\ results[2] = "ok"

\* C22: the process is aborted only by a failed listing, and then no file
\* has been processed; once the listing succeeded no step aborts it, and a
\* file that ends with an error leads back to the loop.
C22_OnlyListingIsFatal ==
    [][/\ pc' = "fatal" => (pc = "list" /\ NothingTouched' /\ drive' = drive)
       /\ pc = "fatal" => FALSE
       /\ (pc = "pf_ret" /\ err # "nil") =>
             (pc' = "loop" /\ results' = Append(results, "err"))]_vars

C22_Witness ==
    /\ pc = "fatal"
    /\ drive = 1..2
    /\ NothingTouched

\* restoreDB holds the database in single-user mode: step 3 has succeeded
\* and restoreDB has not returned.
InWindow == pc \in {"restore4", "restore5"}

\* C23: one file is processed at a time.  Every external operation is issued
\* for the file the loop is at, when every earlier file has its outcome
\* logged and this one has none yet; the loop moves to the next file only
\* from its own head, when the current file's outcome is logged; so the
\* single-user window of a file lies within its own turn.
C23_OneFileAtATime ==
    [][/\ calls' # calls /\ pc # "loop" =>
             /\ idx' = idx
             /\ Len(handed) = idx
             /\ handed[idx] = files[idx]
             /\ Len(results) = idx - 1
       /\ idx' # idx =>
             /\ pc = "loop"
             /\ ~InWindow
             /\ idx' = idx + 1
             /\ Len(results) = idx
       /\ InWindow' => (Len(results') = idx' - 1 /\ Len(handed') = idx')]_vars

C23_Witness ==
    /\ InWindow
    /\ idx = 2
    /\ results = <<"ok">>
    /\ Issued(SqlStep[3])

GrantCalls == {"icacls.file", "icacls.folder"}

\* C24: once the backup file is located, restoreDB is invoked whatever the
\* two grant commands return: the grant step always leads to step 1 of
\* restoreDB and leaves the error of the file, the store and the ledger as
\* they were, so the outcome of the file does not depend on it.
C24_GrantNeverFatal ==
    [][/\ ("Walk" \in {calls'[k] : k \in 1..Len(calls')} /\ "Walk" \notin failed') =>
             (pc' \in {"grant", "restore1"} \/
              SqlStep[1] \in {calls'[k] : k \in 1..Len(calls')})
       /\ pc = "grant" =>
             /\ pc' = "restore1"
             /\ err' = err
             /\ err = "nil"
             /\ UNCHANGED <<drive, ledger, results, from, dErr>>
       /\ pc = "restore1" => calls'[Len(calls')] = SqlStep[1]]_vars

C24_Witness ==
    /\ pc = "loop"
    /\ GrantCalls \subseteq failed
    /\ results[idx] = "ok"
    /\ Succeeded(SqlStep[4])
    /\ cur \notin drive

\* Both runs found no row for the key and both wrote without error.
BothAppended ==
    /\ pc = "u_ret"
    /\ other.pc = "u_ret"
    /\ Len(ups) = 1
    /\ ups[1][3] = "nil"
    /\ other.err = "nil"
    /\ rowIndex = -1
    /\ other.rowIndex = -1

\* C25: the upsert is a read followed by a write.  When both runs read the
\* sheet before either wrote (the key being absent) and both writes succeed,
\* both append: the sheet ends with two more rows, both with the key.
C25_ConcurrentUpsertDuplicates ==
    BothAppended =>
        /\ RowsFor(ledger0, kab) = {}
        /\ Len(ledger) = Len(ledger0) + 2
        /\ SubSeq(ledger, 1, Len(ledger0)) = ledger0
        /\ RowsFor(ledger, kab) = {Len(ledger0) + 1, Len(ledger0) + 2}
        /\ {ledger[Len(ledger0) + 1], ledger[Len(ledger0) + 2]} =
              {<<kab, createdTime>>, <<kab, other.createdTime>>}

C25_Witness ==
    /\ BothAppended
    /\ Len(ledger0) = 1
    /\ Len(ledger) = 3
    /\ Cardinality(RowsFor(ledger, kab)) = 2
    /\ ledger[2] = <<kab, other.createdTime>>
    /\ ledger[3] = <<kab, createdTime>>

\* The current file was restored: the RESTORE command succeeded.
Restored == Succeeded(SqlStep[4])

\* The first row of l for the key of the upsert holds the formatted
\* creation time of the current file.
Recorded(l) ==
    /\ RowsFor(l, kab) # {}
    /\ ColB(l[FirstMatch(l, kab)]) = formatCreatedTime(file.CreatedTime)

DataRows == {k \in RowIdx : ~StartsWithLAnyCase(Col(k, 3))}

LogRows == {k \in RowIdx : StartsWithLAnyCase(Col(k, 3))}

LastOf(S) == CHOOSE k \in S : \A j \in S : j <= k

\* C27 as stated: when the manifest lists several rows of one kind, the
\* RESTORE command names the first column of the last such row.
C27_Original ==
    (Issued(SqlStep[4]) /\ Len(query) = 1) =>
        /\ Cardinality(DataRows) >= 2 => query[1].dataName = Col(LastOf(DataRows), 1)
        /\ Cardinality(LogRows) >= 2 => query[1].logName = Col(LastOf(LogRows), 1)

\* The name the RESTORE command carries for the rows S of one kind, given
\* the columns of every line: the first column of the last row of S, or the
\* default name of the kind when that column is empty.
NameOfLast(cols, S, fallback) ==
    LET name == cols[LastOf(S)][1]
    IN  IF name = EmptyStr THEN fallback ELSE name

\* C27: the RESTORE command carries one data name and one log name.  When
\* the manifest lists several rows of one kind, the name is the first column
\* of the last such row, unless that column is empty: then the command names
\* dbName for the data file and dbName_log for the log file.
C27_LastRowOfKindNamed ==
    (pc = "restore5" \/ err = SqlStep[4]) =>
        /\ Len(query) = 1
        /\ LET lines == ManifestLines
               cols == [k \in 1..Len(lines) |-> Cols(lines[k])]
               rows == {k \in 1..Len(lines) : IsRow(lines[k])}
               data == {k \in rows : ~StartsWithLAnyCase(cols[k][3])}
               logs == rows \ data
           IN  /\ Cardinality(data) >= 2 =>
                     query[1].dataName = NameOfLast(cols, data, dbName)
               /\ Cardinality(logs) >= 2 =>
                     query[1].logName = NameOfLast(cols, logs, dbName \o LogSuffix)

C27_Witness ==
    /\ Succeeded(SqlStep[4])
    /\ DataRows = {1, 2}
    /\ Col(1, 1) = <<"x">>
    /\ Col(2, 1) = <<"y">>
    /\ query[1].dataName = <<"y">>
    /\ query[1].logName = dbName \o LogSuffix

FirstMatching == CHOOSE i \in Matching : \A j \in Matching : i <= j

\* C28: findBakFile walks the directory and returns the path of the first
\* entry met whose name ends in .bak.
C28_FirstBakFile ==
    (FindReturned /\ ~WalkFails /\ Matching # {}) =>
        /\ pc = "grant"
        /\ err = "nil"
        /\ bakFile = entries[FirstMatching].path

\* The age of the current file, read at the age gate, is below the limit.
Younger == since >= 0 /\ since < maxAgeForDeletion

AtLimit == since = maxAgeForDeletion

Untouched ==
    /\ cur \in drive
    /\ ~Issued("Drive.Delete")
    /\ ~Issued("Drive.Get")
    /\ ~IssuedAny(SheetsCalls)
    /\ Len(ups) = 0

PastSizeGate == idx > 0 /\ pc \notin {"pf_start", "fatal"}

\* C30: the size gate is strict.  A file of exactly 10240 bytes is not
\* skipped: its first step is the creation of the scratch directory, and
\* once that exists the download is the next call.  A file of 10239 bytes is
\* skipped: the source deletion is its only call.
C30_SizeGateStrict ==
    PastSizeGate =>
        /\ file.Size = minFileSize =>
              /\ calls[1] = "MkdirTemp"
              /\ "MkdirTemp" \notin failed =>
                    (pc = "download" \/ (Len(calls) >= 2 /\ calls[2] = "Drive.Download"))
              /\ "MkdirTemp" \in failed => calls = <<"MkdirTemp">>
        /\ file.Size = minFileSize - 1 =>
              /\ calls = <<"Drive.Delete">>
              /\ ~scratch
              /\ ~deferred
              /\ Len(ups) = 0

C30_Witness ==
    /\ pc = "extract"
    /\ idx = 2
    /\ file.Size = 10240
    /\ calls = <<"MkdirTemp", "Drive.Download">>
    /\ failed = {}
    /\ scratch

\* ---- the correction query
UpdateQuery == "sqlcmd.UPDATE_QUERY"

\* restoreDB reported success: steps 1, 3 and 4 succeeded and step 5 was
\* issued, whatever it returned.
RestoreReportedSuccess ==
    /\ Succeeded(SqlStep[1])
    /\ Succeeded(SqlStep[3])
    /\ Succeeded(SqlStep[4])
    /\ Issued(SqlStep[5])

\* The calls issued after the first call named c.
CallsAfter(c) == {calls[k] : k \in (FirstIndex(c) + 1)..Len(calls)}

\* C31: the correction query is issued for a file if and only if restoreDB
\* reported success for it, also when only step 5 failed; it is issued at
\* most once and after steps 4 and 5; when it fails, processFile returns its
\* error and no database command follows, only the removal of the scratch
\* directory.
C31_CorrectionIffRestored ==
    idx > 0 =>
        /\ Issued(UpdateQuery) =>
              /\ RestoreReportedSuccess
              /\ Count(UpdateQuery) = 1
              /\ FirstIndex(SqlStep[4]) < FirstIndex(UpdateQuery)
              /\ FirstIndex(SqlStep[5]) < FirstIndex(UpdateQuery)
        /\ RestoreReportedSuccess => (pc = "update" \/ Issued(UpdateQuery))
        /\ (Issued(UpdateQuery) /\ UpdateQuery \in failed) =>
              /\ err = UpdateQuery
              /\ pc \in {"pf_ret", "loop", "done"}
              /\ CallsAfter(UpdateQuery) \subseteq {"RemoveAll"}
              /\ Succeeded(SqlStep[4])

C31_Witness ==
    /\ pc = "loop"
    /\ failed = {SqlStep[5], UpdateQuery}
    /\ Count(UpdateQuery) = 1
    /\ calls[Len(calls)] = "RemoveAll"
    /\ calls[Len(calls) - 1] = UpdateQuery
    /\ results[idx] = "err"
    /\ cur \in drive

\* ------------------------------------------------- repeated batch runs
\* The process is started again and again.  One file sits in the store; on
\* every attempt its archive is downloaded and then fails to extract, or
\* extracts and holds no backup file; Files.Delete succeeds when issued; the
\* clock has advanced by the time the next run starts.  The file's record is
\* the same in every listing.
LargeRecs == {r \in FileRecs : ~TooSmall(r.Size)}

InitRuns ==
    /\ pc = "list"
    /\ now = StartNow
    /\ drive = {1}
    /\ ledger \in InitLedgers
    /\ ledger0 = ledger
    /\ kab = EmptyStr
    /\ files = << >>
    /\ idx = 0
    /\ handed = << >>
    /\ results = << >>
    /\ completed = FALSE
    /\ file \in LargeRecs
    /\ calls = << >>
    /\ failed = {}
    /\ scratch = FALSE
    /\ deferred = FALSE
    /\ err = "nil"
    /\ from = "none"
    /\ dErr = "nil"
    /\ since = -1
    /\ createdTime = ""
    /\ rowIndex = -1
    /\ ups = << >>
    /\ entries = << >>
    /\ bakFile = EmptyStr
    /\ InitRestoreLocals
    /\ env = Options

RunsList == GetFilesFromFolder /\ pc' = "loop"

RunsLoopNext == LoopNext /\ file' = file

RunsCreateTempDir == CreateTempDir /\ pc' = "download"

RunsDownload == DownloadFile /\ pc' = "extract"

RunsFind == FindBakFile /\ pc' = "dx_failed"

RunsDelete == DfusDelete /\ cur \notin drive'

\* The run has ended; the next one starts later, as a new process.
NewRun ==
    /\ pc = "done"
    /\ pc' = "list"
    /\ now' = IF now < MaxNow THEN now + 1 ELSE now
    /\ files' = << >>
    /\ idx' = 0
    /\ handed' = << >>
    /\ results' = << >>
    /\ completed' = FALSE
    /\ calls' = << >>
    /\ failed' = {}
    /\ scratch' = FALSE
    /\ deferred' = FALSE
    /\ err' = "nil"
    /\ from' = "none"
    /\ dErr' = "nil"
    /\ since' = -1
    /\ kab' = EmptyStr
    /\ createdTime' = ""
    /\ rowIndex' = -1
    /\ ups' = << >>
    /\ UNCHANGED <<storeVars, file, walkVars, restoreVars, envVars, peerVars>>

NextRuns ==
    \/ RunsList
    \/ RunsLoopNext
    \/ LoopEnd
    \/ RunsCreateTempDir
    \/ RunsDownload
    \/ Extract7z
    \/ RunsFind
    \/ ExtractionFailed
    \/ RunsDelete
    \/ DfusParent
    \/ UpsertRead
    \/ UpsertUpdate
    \/ UpsertAppend
    \/ DfusAfterUpsert
    \/ CleanupReturn
    \/ ProcessFileReturn
    \/ NewRun

\* Each process is sequential and the scheduler keeps starting runs.
SpecRuns == InitRuns /\ [][NextRuns]_vars /\ WF_vars(NextRuns)

\* C32 as stated: the file is eventually deleted from the store and absent
\* from every later listing.
C32_Original == <>[](drive = {})

\* C32: that holds for a file whose creation time can be parsed: after
\* enough runs its age reaches 10 minutes, the cleanup deletes it, and from
\* then on no listing holds it.  (A file whose creation time cannot be parsed
\* is never old enough.)
C32_EventuallyCleanedUp ==
    (ParseRFC3339(file.CreatedTime) >= 0) =>
        <>[](drive = {} /\ (pc \in {"loop", "done"} /\ idx = 0 => files = << >>))

C32_Witness ==
    /\ pc = "done"
    /\ drive = {}
    /\ idx = 0
    /\ files = << >>
    /\ completed
    /\ now = MaxNow
    /\ ParseRFC3339(file.CreatedTime) >= 0

\* ---- a failed download
DownloadFailed == "Drive.Download" \in failed

\* C33: when the download of a file fails, its processing ends as failed
\* with no source deletion and no ledger call, whatever the file's age.
C33_DownloadFailureNoCleanup ==
    DownloadFailed =>
        /\ ~Issued("Drive.Delete")
        /\ ~Issued("Drive.Get")
        /\ ~IssuedAny(SheetsCalls)
        /\ Len(ups) = 0
        /\ cur \in drive
        /\ Logged => results[idx] = "err"

\* ---- deletion before the ledger, once each
InUpsert == pc \in {"u_read", "u_write", "u_ret"}

SheetsWrites == {"Sheets.Update", "Sheets.Append"}

CountAny(S) == Cardinality({k \in 1..Len(calls) : calls[k] \in S})

\* C34: on every path of processFile the ledger upsert is entered only after
\* the source deletion of the same file has succeeded, and for one file of
\* one run at most one source deletion and at most one upsert are issued.
C34_UpsertOnlyAfterDelete ==
    idx > 0 =>
        /\ Count("Drive.Delete") <= 1
        /\ Len(ups) <= 1
        /\ Count("Sheets.Get") <= 1
        /\ CountAny(SheetsWrites) <= 1
        /\ (InUpsert \/ IssuedAny(SheetsCalls) \/ Len(ups) > 0) =>
              /\ Deleted
              /\ cur \notin drive
              /\ \A k \in 1..Len(calls) :
                    calls[k] \in SheetsCalls => FirstIndex("Drive.Delete") < k
        /\ (Issued("Drive.Delete") /\ ~Deleted) =>
              (~IssuedAny(SheetsCalls) /\ ~InUpsert /\ cur \in drive)

C34_Witness ==
    /\ pc = "loop"
    /\ idx = 2
    /\ from = "finalize"
    /\ Count("Drive.Delete") = 1
    /\ Count("Sheets.Get") = 1
    /\ Count("Sheets.Append") = 1
    /\ Len(ups) = 1
    /\ ups[1][3] = "nil"
    /\ drive = {1}

\* ---- the order of the restore steps
IsSqlStep(c) == \E n \in 1..5 : c = SqlStep[n]

\* The restore commands issued for the current file, in the order of issue.
StepsIssued == SelectSeq(calls, IsSqlStep)

\* C35: the restore steps are issued in the order 1,2,3,4,5, each at most
\* once, and step 5 is issued if and only if step 4 succeeded: when step 3
\* succeeded and step 4 failed, restoreDB returns that failure and the
\* return to multi-user mode is never issued.
C35_StepsInOrder ==
    idx > 0 =>
        /\ \E n \in 0..5 : StepsIssued = SubSeq(SqlStep, 1, n)
        /\ Issued(SqlStep[5]) => Succeeded(SqlStep[4])
        /\ Succeeded(SqlStep[4]) => (pc = "restore5" \/ Issued(SqlStep[5]))
        /\ (Succeeded(SqlStep[3]) /\ SqlStep[4] \in failed) =>
              /\ err = SqlStep[4]
              /\ pc \in {"pf_ret", "loop", "done"}
              /\ StepsIssued = SubSeq(SqlStep, 1, 4)
              /\ ~Issued(UpdateQuery)

C35_Witness ==
    /\ pc = "loop"
    /\ StepsIssued = SubSeq(SqlStep, 1, 4)
    /\ failed = {SqlStep[4]}
    /\ err = SqlStep[4]
    /\ results[idx] = "err"

\* ---- what the cleanup branch returns
ExtractionErrors == {"7z", "Walk"}

\* C36: in the cleanup branch (extraction failed, the file at least 10
\* minutes old) processFile returns the extraction error, whatever the
\* cleanup did, and main logs the file as failed; when the cleanup's deletion
\* fails, its error is not returned, the source stays in the store and no
\* ledger call is made.
C36_CleanupReturnsExtractionError ==
    (Returning /\ ExtractionError /\ since >= maxAgeForDeletion) =>
        /\ from = "cleanup"
        /\ err \in ExtractionErrors
        /\ err \in failed
        /\ Logged => results[idx] = "err"
        /\ "Drive.Delete" \in failed =>
              /\ err # "Drive.Delete"
              /\ cur \in drive
              /\ ~Issued("Drive.Get")
              /\ ~IssuedAny(SheetsCalls)
              /\ Len(ups) = 0

C36_Witness ==
    /\ pc = "loop"
    /\ from = "cleanup"
    /\ since = maxAgeForDeletion
    /\ failed = {"Walk", "Drive.Delete"}
    /\ err = "Walk"
    /\ dErr = "Drive.Delete"
    /\ results[idx] = "err"
    /\ cur \in drive

\* ---- a creation time that cannot be parsed
Unparsable == ParseRFC3339(file.CreatedTime) < 0

\* C37: for a file whose creation time cannot be parsed, a failed extraction
\* is handled as for a young file, on the first run and on every later one,
\* however far the clock has advanced: the cleanup is never entered, no
\* source deletion and no ledger call are issued, the file stays in the
\* store and the ledger stays as it was.
C37_UnparsableNeverCleaned ==
    Unparsable =>
        /\ drive = {1}
        /\ ledger = ledger0
        /\ from # "cleanup"
        /\ ~Issued("Drive.Delete")
        /\ ~Issued("Drive.Get")
        /\ ~IssuedAny(SheetsCalls)
        /\ Len(ups) = 0
        /\ pc \in {"pf_ret", "loop", "done"} /\ idx > 0 =>
              (err \in {"7z", "Walk"} /\ since = -1)
        /\ pc = "done" => results = <<"err">>

C37_Witness ==
    /\ pc = "done"
    /\ now = MaxNow
    /\ Unparsable
    /\ drive = {1}
    /\ files = <<1>>
    /\ results = <<"err">>
    /\ "7z" \in failed
    /\ calls = <<"MkdirTemp", "Drive.Download", "7z", "RemoveAll">>

\* ---- a failed parent lookup
ParentLookupFailed == Deleted /\ "Drive.Get" \in failed

\* C38: when the lookup of the parent folder's name fails after the source
\* deletion succeeded, no ledger read and no ledger write is issued for the
\* file, and the outcome of the file is what it was: success in the last
\* step of processFile, the extraction error in the cleanup branch.
C38_ParentLookupFailureSkipsLedger ==
    ParentLookupFailed =>
        /\ ~IssuedAny(SheetsCalls)
        /\ ~InUpsert
        /\ Len(ups) = 0
        /\ kab = EmptyStr
        /\ cur \notin drive
        /\ pc \in {"dfus_ret", "pf_ret", "loop", "done"}
        /\ (from = "finalize" /\ Returning) =>
              /\ err = "nil"
              /\ Logged => results[idx] = "ok"
        /\ (from = "cleanup" /\ Returning) => err \in failed

C38_Witness ==
    /\ pc = "loop"
    /\ from = "finalize"
    /\ failed = {"Drive.Get"}
    /\ Count("Drive.Get") = 2
    /\ Deleted
    /\ Len(ups) = 0
    /\ results[idx] = "ok"
    /\ cur \notin drive

\* ---- a file without a parent
\* The file record names no parent and the one lookup made, of the file's
\* parents, succeeded and named none either.
NoParentFound ==
    /\ idx > 0
    /\ Len(file.Parents) = 0
    /\ Count("Drive.Get") = 1
    /\ "Drive.Get" \notin failed

BlankKeyRows == RowsFor(ledger, EmptyStr)

\* C39: when neither the file record nor the fallback lookup yields a
\* parent, getParentFolderName returns the empty name without error and the
\* upsert is made with the empty key; the first such upsert appends a row
\* with an empty column A and every later one updates that row, so the
\* ledger never holds more than one row for the parentless files.
C39_ParentlessFilesShareRow ==
    /\ NoParentFound =>
          /\ kab = EmptyStr
          /\ InUpsert \/ Len(ups) = 1
          /\ Issued("Sheets.Get") \/ pc = "u_read"
          /\ Len(ups) = 1 => ups[1][1] = EmptyStr
          /\ (Len(ups) = 1 /\ ups[1][3] = "nil") =>
                /\ Cardinality(BlankKeyRows) = 1
                /\ ledger[FirstMatch(ledger, EmptyStr)] =
                       <<EmptyStr, formatCreatedTime(file.CreatedTime)>>
    /\ Cardinality(BlankKeyRows) <= 1

C39_Witness ==
    /\ pc = "loop"
    /\ idx = 2
    /\ NoParentFound
    /\ kab = EmptyStr
    /\ Issued("Sheets.Update")
    /\ ups = <<<<EmptyStr, formatCreatedTime(file.CreatedTime), "nil">>>>
    /\ Len(ledger) = 2
    /\ ledger[2][1] = EmptyStr
    /\ BlankKeyRows = {2}

\* ---- a failed ledger read
\* The upserts that got as far as a write call.
WritingUpserts == {k \in 1..Len(ups) : ups[k][3] # "Sheets.Get"}

WritesBounded ==
    /\ CountAny(SheetsWrites) = Cardinality(WritingUpserts)
    /\ Count("Sheets.Get") = Len(ups) + (IF pc = "u_write" THEN 1 ELSE 0)

\* C40: when the ledger read of an upsert fails, the upsert returns that
\* error and issues neither Values.Update nor Values.Append, and the ledger
\* is as before; every upsert issues one read and at most one write call.
C40_ReadFailureWritesNothing ==
    [][/\ (pc = "u_read" /\ "Sheets.Get" \in failed' /\ "Sheets.Get" \notin failed) =>
             /\ pc' = "u_ret"
             /\ ledger' = ledger
             /\ calls' = Append(calls, "Sheets.Get")
             /\ ups' = Append(ups, <<kab, createdTime, "Sheets.Get">>)
       /\ (pc = "u_read" /\ pc' = "u_ret") =>
             /\ ledger' = ledger
             /\ ups'[Len(ups')][3] = "Sheets.Get"
       /\ pc = "u_read" => (calls' = Append(calls, "Sheets.Get") /\ ledger' = ledger)
       /\ pc = "u_write" =>
             /\ pc' = "u_ret"
             /\ \E w \in SheetsWrites : calls' = Append(calls, w)
             /\ ups'[Len(ups')][3] \in SheetsWrites \cup {"nil"}
       /\ pc \in {"u_ret", "u_idle"} => (calls' = calls /\ ledger' = ledger)
       /\ WritesBounded'
       /\ (pc' = "u_ret" /\ ups'[Len(ups')][3] = "Sheets.Get") =>
             calls'[Len(calls')] = "Sheets.Get"]_vars

C40_Witness ==
    /\ pc = "u_idle"
    /\ Len(ups) = 2
    /\ ups[1][3] = "Sheets.Get"
    /\ ups[2][3] = "nil"
    /\ calls = <<"Sheets.Get", "Sheets.Get", "Sheets.Append">>
    /\ Len(ledger) = Len(ledger0) + 1

====
